---- MODULE Spec2Model ----
(***************************************************************************)
(* A model of src/app.py: the SQLite store behind the finance tracker      *)
(* (init_db, add_transaction, delete_transaction, get_data, get_categories,*)
(* get_locations, add_new_category, add_new_location) and of the script    *)
(* body that filters get_data()'s frame and derives the dashboard figures. *)
(*                                                                         *)
(* Text values (TEXT columns, Python str) are sequences of one-character   *)
(* strings, so that str.capitalize(), the ISO form of a date and the       *)
(* byte order of ORDER BY are computed and not assumed.  SQL NULL / Python *)
(* None is the value Null.  REAL / float64 amounts are whole numbers kept  *)
(* to MantBits significant bits, rounded to nearest, ties to even.         *)
(***************************************************************************)
EXTENDS Integers, Sequences, FiniteSets, TLC

VARIABLES
    schema,            \* table name -> its columns in order; <<>>: no such table
    ubicacionDefault,  \* the DEFAULT of transacciones.ubicacion
    transacciones,     \* rows of transacciones; a row holds the columns it was written with
    categorias,        \* rows of categorias: [id, tipo, nombre]
    lugares,           \* rows of lugares: [id, nombre]
    sqlite_sequence,   \* table name -> largest id AUTOINCREMENT has handed out
    issued,            \* history: every id add_transaction or an earlier version assigned
    initCalls,         \* history: init_db calls since the last other call, counted to 2
    ret,               \* the last call: [op, arg, value]
    view               \* what the last run of the script body derived for the dashboard

vars == <<schema, ubicacionDefault, transacciones, categorias, lugares,
          sqlite_sequence, issued, initCalls, ret, view>>


----------------------------------------------------------------------------
(* Bounds of the model. *)

\* transacciones ids handed out in one behaviour
MaxId == 3
\* significant bits of an amount (float64 has 53)
MantBits == 10

----------------------------------------------------------------------------
(* Text. *)

Null == <<"NULL">>

LowerChars == <<"a","b","c","d","e","f","g","h","i","j","k","l","m",
                "n","o","p","q","r","s","t","u","v","w","x","y","z","ó">>
UpperChars == <<"A","B","C","D","E","F","G","H","I","J","K","L","M",
                "N","O","P","Q","R","S","T","U","V","W","X","Y","Z","Ó">>
DigitChars == <<"0","1","2","3","4","5","6","7","8","9">>

InSeq(c, s) == \E i \in DOMAIN s : s[i] = c
IndexOf(c, s) == CHOOSE i \in DOMAIN s : s[i] = c
Range(s) == {s[i] : i \in DOMAIN s}
DigitSet == Range(DigitChars)

\* str.upper() and str.lower() of one character.
UpperOf == [c \in Range(LowerChars) |-> UpperChars[IndexOf(c, LowerChars)]]
LowerOf == [c \in Range(UpperChars) |-> LowerChars[IndexOf(c, UpperChars)]]
Upper(c) == IF c \in DOMAIN UpperOf THEN UpperOf[c] ELSE c
Lower(c) == IF c \in DOMAIN LowerOf THEN LowerOf[c] ELSE c

\* str.capitalize(): the first character upper-cased, every other one lower-cased.
CapitalizeFirstOnly(s) == [i \in DOMAIN s |-> IF i = 1 THEN Upper(s[i]) ELSE s[i]]
CapitalizeNot(s) == s
Capitalize(s) == [i \in DOMAIN s |-> IF i = 1 THEN Upper(s[i]) ELSE Lower(s[i])]

\* The code point of a character: the order of SQLite's BINARY collation and
\* of Python's str comparison.
CodeOf ==
    [c \in Range(DigitChars) \cup Range(UpperChars) \cup Range(LowerChars) \cup {"-", " "} |->
        IF InSeq(c, DigitChars) THEN 47 + IndexOf(c, DigitChars)
        ELSE IF InSeq(c, UpperChars)
             THEN (IF IndexOf(c, UpperChars) <= 26 THEN 64 + IndexOf(c, UpperChars) ELSE 211)
        ELSE IF InSeq(c, LowerChars)
             THEN (IF IndexOf(c, LowerChars) <= 26 THEN 96 + IndexOf(c, LowerChars) ELSE 243)
        ELSE IF c = "-" THEN 45
        ELSE 32]
CharCode(c) == CodeOf[c]

RECURSIVE TextLessFrom(_, _, _)
TextLessFrom(a, b, i) ==
    IF i > Len(b) THEN FALSE
    ELSE IF i > Len(a) THEN TRUE
    ELSE IF CharCode(a[i]) # CharCode(b[i]) THEN CharCode(a[i]) < CharCode(b[i])
    ELSE TextLessFrom(a, b, i + 1)

\* a < b as SQLite compares two TEXT values.
TextLess(a, b) == a # b /\ TextLessFrom(a, b, 1)

----------------------------------------------------------------------------
(* Dates: a date is [year, month, day]; the store holds its ISO text. *)

Digit(n) == DigitChars[n + 1]
DigitVal(c) == CharCode(c) - 48

\* sqlite3's adapter for datetime.date: date.isoformat(), 'YYYY-MM-DD'.
IsoFormat(d) ==
    << Digit(d.year \div 1000), Digit((d.year \div 100) % 10),
       Digit((d.year \div 10) % 10), Digit(d.year % 10), "-",
       Digit(d.month \div 10), Digit(d.month % 10), "-",
       Digit(d.day \div 10), Digit(d.day % 10) >>

IsIsoText(t) ==
    /\ Len(t) = 10
    /\ t[5] = "-" /\ t[8] = "-"
    /\ \A i \in {1, 2, 3, 4, 6, 7, 9, 10} : t[i] \in DigitSet

\* pd.to_datetime of one ISO text.
ToDatetime(t) ==
    [ year  |-> 1000 * DigitVal(t[1]) + 100 * DigitVal(t[2])
                + 10 * DigitVal(t[3]) + DigitVal(t[4]),
      month |-> 10 * DigitVal(t[6]) + DigitVal(t[7]),
      day   |-> 10 * DigitVal(t[9]) + DigitVal(t[10]) ]

----------------------------------------------------------------------------
(* Amounts: REAL columns and float64 sums. *)

RECURSIVE BitLen(_)
BitLen(n) == IF n = 0 THEN 0 ELSE 1 + BitLen(n \div 2)

RoundNat(n) ==
    IF BitLen(n) <= MantBits THEN n
    ELSE LET q  == 2 ^ (BitLen(n) - MantBits)
             lo == (n \div q) * q
             r  == n - lo
         IN  IF 2 * r < q THEN lo
             ELSE IF 2 * r > q THEN lo + q
             ELSE IF (n \div q) % 2 = 0 THEN lo ELSE lo + q

\* The float nearest to x.
Round(x) == IF x < 0 THEN 0 - RoundNat(0 - x) ELSE RoundNat(x)

FAdd(a, b) == Round(a + b)
FSub(a, b) == Round(a - b)

----------------------------------------------------------------------------
(* The schema and the seed rows of init_db. *)

Tables == {"transacciones", "categorias", "lugares"}

TransaccionesColumns == <<"id", "fecha", "tipo", "categoria", "monto", "nota", "ubicacion">>
CategoriasColumns == <<"id", "tipo", "nombre">>
LugaresColumns == <<"id", "nombre">>

General == <<"G","e","n","e","r","a","l">>

Salario      == <<"S","a","l","a","r","i","o">>
Inversiones  == <<"I","n","v","e","r","s","i","o","n","e","s">>
Alimentacion == <<"A","l","i","m","e","n","t","a","c","i","ó","n">>
Transporte   == <<"T","r","a","n","s","p","o","r","t","e">>
Vivienda     == <<"V","i","v","i","e","n","d","a">>
Salud        == <<"S","a","l","u","d">>
Ocio         == <<"O","c","i","o">>
Servicios    == <<"S","e","r","v","i","c","i","o","s">>

defaults ==
    << <<"Ingreso", Salario>>, <<"Ingreso", Inversiones>>,
       <<"Gasto", Alimentacion>>, <<"Gasto", Transporte>>, <<"Gasto", Vivienda>>,
       <<"Gasto", Salud>>, <<"Gasto", Ocio>>, <<"Gasto", Servicios>> >>

Casa         == <<"C","a","s","a">>
Oficina      == <<"O","f","i","c","i","n","a">>
Supermercado == <<"S","u","p","e","r","m","e","r","c","a","d","o">>
Restaurante  == <<"R","e","s","t","a","u","r","a","n","t","e">>
Online       == <<"O","n","l","i","n","e">>

lugares_defecto == << Casa, Oficina, Supermercado, Restaurante, Online >>

----------------------------------------------------------------------------
(* Rows, ids and constraints. *)

Max2(a, b) == IF a >= b THEN a ELSE b

MaxRowId(rows) ==
    IF rows = {} THEN 0 ELSE CHOOSE m \in {r.id : r \in rows} : \A r \in rows : r.id <= m

\* INTEGER PRIMARY KEY AUTOINCREMENT: one more than the largest id the table has
\* ever held (sqlite_sequence), never an id that was deleted.
NextRowIdReuse(rows, seq) == MaxRowId(rows) + 1
NextRowId(rows, seq) == Max2(seq, MaxRowId(rows)) + 1

\* UNIQUE(tipo, nombre) of categorias, under the BINARY collation.
CategoriaConflict(rows, tipo, nombre) ==
    \E r \in rows : r.tipo = tipo /\ r.nombre = nombre

\* nombre TEXT NOT NULL UNIQUE of lugares.
LugarConflict(rows, nombre) == \E r \in rows : r.nombre = nombre

\* One INSERT OR IGNORE INTO categorias; t is [rows, seq].  An ignored row
\* has taken its id before the conflict is found.
InsertOrIgnoreCategoria(t, item) ==
    LET id == NextRowId(t.rows, t.seq)
    IN  IF CategoriaConflict(t.rows, item[1], item[2])
        THEN [rows |-> t.rows, seq |-> id]
        ELSE [rows |-> t.rows \cup {[id |-> id, tipo |-> item[1], nombre |-> item[2]]},
              seq  |-> id]

InsertOrIgnoreLugar(t, nombre) ==
    LET id == NextRowId(t.rows, t.seq)
    IN  IF LugarConflict(t.rows, nombre)
        THEN [rows |-> t.rows, seq |-> id]
        ELSE [rows |-> t.rows \cup {[id |-> id, nombre |-> nombre]}, seq |-> id]

RECURSIVE ExecuteManyCategorias(_, _)
ExecuteManyCategorias(t, items) ==
    IF items = <<>> THEN t
    ELSE ExecuteManyCategorias(InsertOrIgnoreCategoria(t, Head(items)), Tail(items))

RECURSIVE ExecuteManyLugares(_, _)
ExecuteManyLugares(t, items) ==
    IF items = <<>> THEN t
    ELSE ExecuteManyLugares(InsertOrIgnoreLugar(t, Head(items)), Tail(items))

\* Rows written with no uniqueness check at all, one id each.
RECURSIVE InsertAllCategorias(_, _)
InsertAllCategorias(t, items) ==
    IF items = <<>> THEN t
    ELSE LET id == NextRowId(t.rows, t.seq)
         IN  InsertAllCategorias(
                 [rows |-> t.rows \cup {[id |-> id, tipo |-> Head(items)[1],
                                         nombre |-> Head(items)[2]]},
                  seq  |-> id],
                 Tail(items))

\* "Datos semilla para Categorias": only into an empty table.
SeedCategoriasUnchecked(t) == InsertAllCategorias(t, defaults)
SeedCategoriasAlways(t) == ExecuteManyCategorias(t, defaults)
SeedCategorias(t) ==
    IF Cardinality(t.rows) = 0 THEN ExecuteManyCategorias(t, defaults) ELSE t

\* "Datos semilla para Lugares": only into an empty table.
SeedLugares(t) ==
    IF Cardinality(t.rows) = 0 THEN ExecuteManyLugares(t, lugares_defecto) ELSE t

\* CREATE TABLE IF NOT EXISTS, for the three tables.
TableColumns(t) ==
    IF t = "transacciones" THEN TransaccionesColumns
    ELSE IF t = "categorias" THEN CategoriasColumns
    ELSE LugaresColumns

CreateTablesIfNotExist(sch) ==
    [t \in Tables |-> IF sch[t] = <<>> THEN TableColumns(t) ELSE sch[t]]

\* "SELECT ubicacion FROM transacciones LIMIT 1" raises OperationalError.
ColumnMissing(sch) == ~InSeq("ubicacion", sch["transacciones"])

\* The DEFAULT that ALTER TABLE ... ADD COLUMN gives the new column.
AddColumnDefaultNull == Null
AddColumnDefault == General

\* init_db has run: the script calls it before anything else.
AllTables(sch) == \A t \in Tables : sch[t] # <<>>
Ready == AllTables(schema)

\* ret: the call's name, the id it was given or assigned, its tipo and text
\* arguments, and value: what it returned (FALSE also when it raised).
NoRet == [op |-> "", id |-> 0, tipo |-> "", text |-> <<>>, value |-> TRUE]

----------------------------------------------------------------------------
(* init_db *)

InitDb ==
    LET created == CreateTablesIfNotExist(schema)
        missing == ColumnMissing(created)
        cats    == SeedCategorias([rows |-> categorias, seq |-> sqlite_sequence["categorias"]])
        lugs    == SeedLugares([rows |-> lugares, seq |-> sqlite_sequence["lugares"]])
    IN  /\ schema' = IF missing
                     THEN [created EXCEPT !["transacciones"] = Append(@, "ubicacion")]
                     ELSE created
        /\ ubicacionDefault' = IF missing THEN AddColumnDefault ELSE ubicacionDefault
        /\ categorias' = cats.rows
        /\ lugares' = lugs.rows
        /\ sqlite_sequence' = [sqlite_sequence EXCEPT !["categorias"] = cats.seq,
                                                      !["lugares"] = lugs.seq]
        /\ ret' = [NoRet EXCEPT !.op = "init_db"]
        /\ initCalls' = IF initCalls = 0 THEN 1 ELSE 2
        /\ UNCHANGED <<transacciones, issued, view>>

----------------------------------------------------------------------------
(* The reference lists. *)

\* ORDER BY nombre; rows of one nombre (none under the UNIQUE constraints) in id order.
NombreBefore(r, s) ==
    \/ TextLess(r.nombre, s.nombre)
    \/ (r.nombre = s.nombre /\ r.id < s.id)

RECURSIVE SortByNombre(_)
SortByNombre(rows) ==
    IF rows = {} THEN <<>>
    ELSE LET r    == CHOOSE x \in rows : TRUE
             rest == SortByNombre(rows \ {r})
             k    == Cardinality({i \in DOMAIN rest : NombreBefore(rest[i], r)})
         IN  SubSeq(rest, 1, k) \o <<r>> \o SubSeq(rest, k + 1, Len(rest))

OrderByNombre(rows) ==
    LET sorted == SortByNombre(rows) IN [i \in DOMAIN sorted |-> sorted[i].nombre]

\* SELECT nombre FROM categorias WHERE tipo = ? ORDER BY nombre
SelectNombres(rows, tipo) == OrderByNombre({r \in rows : r.tipo = tipo})

get_categories(tipo_seleccionado) == SelectNombres(categorias, tipo_seleccionado)

get_locations == OrderByNombre(lugares)

AddNewCategory(tipo, nombre) ==
    LET name == Capitalize(nombre)
        id   == NextRowId(categorias, sqlite_sequence["categorias"])
    IN  /\ Ready
        /\ IF CategoriaConflict(categorias, tipo, name)
           THEN \* sqlite3.IntegrityError: return False
                /\ UNCHANGED <<categorias, sqlite_sequence>>
                /\ ret' = [op |-> "add_new_category", id |-> 0, tipo |-> tipo,
                           text |-> nombre, value |-> FALSE]
           ELSE /\ categorias' = categorias \cup {[id |-> id, tipo |-> tipo, nombre |-> name]}
                /\ sqlite_sequence' = [sqlite_sequence EXCEPT !["categorias"] = id]
                /\ ret' = [op |-> "add_new_category", id |-> 0, tipo |-> tipo,
                           text |-> nombre, value |-> TRUE]
        /\ initCalls' = 0
        /\ UNCHANGED <<schema, ubicacionDefault, transacciones, lugares, issued, view>>

AddNewLocation(nombre) ==
    LET name == Capitalize(nombre)
        id   == NextRowId(lugares, sqlite_sequence["lugares"])
    IN  /\ Ready
        /\ IF LugarConflict(lugares, name)
           THEN /\ UNCHANGED <<lugares, sqlite_sequence>>
                /\ ret' = [op |-> "add_new_location", id |-> 0, tipo |-> "",
                           text |-> nombre, value |-> FALSE]
           ELSE /\ lugares' = lugares \cup {[id |-> id, nombre |-> name]}
                /\ sqlite_sequence' = [sqlite_sequence EXCEPT !["lugares"] = id]
                /\ ret' = [op |-> "add_new_location", id |-> 0, tipo |-> "",
                           text |-> nombre, value |-> TRUE]
        /\ initCalls' = 0
        /\ UNCHANGED <<schema, ubicacionDefault, transacciones, categorias, issued, view>>

----------------------------------------------------------------------------
(* The transaction store. *)

\* The row an INSERT INTO transacciones writes: the date adapted to its ISO
\* text, the amount as a REAL.
NewRow(id, fecha, tipo, categoria, monto, nota, ubicacion) ==
    [id |-> id, fecha |-> IsoFormat(fecha), tipo |-> tipo, categoria |-> categoria,
     monto |-> Round(monto), nota |-> nota, ubicacion |-> ubicacion]

add_transaction(fecha, tipo, categoria, monto, nota, ubicacion) ==
    LET id == NextRowId(transacciones, sqlite_sequence["transacciones"])
    IN  /\ Ready
        /\ id <= MaxId
        /\ IF categoria = Null
           THEN \* categoria TEXT NOT NULL: sqlite3.IntegrityError, nothing written
                /\ UNCHANGED <<transacciones, sqlite_sequence, issued>>
                /\ ret' = [NoRet EXCEPT !.op = "add_transaction", !.value = FALSE]
           ELSE /\ transacciones' = transacciones \cup
                        {[id |-> id, fecha |-> IsoFormat(fecha), tipo |-> tipo,
                          categoria |-> categoria, monto |-> Round(monto),
                          nota |-> nota, ubicacion |-> ubicacion]}
                /\ sqlite_sequence' = [sqlite_sequence EXCEPT !["transacciones"] = id]
                /\ issued' = issued \cup {id}
                /\ ret' = [NoRet EXCEPT !.op = "add_transaction", !.id = id,
                                         !.text = ubicacion]
        /\ initCalls' = 0
        /\ UNCHANGED <<schema, ubicacionDefault, categorias, lugares, view>>

\* DELETE FROM transacciones WHERE id = ?
DeleteFromUpTo(rows, transaccion_id) == {r \in rows : r.id > transaccion_id}
DeleteFrom(rows, transaccion_id) == {r \in rows : r.id # transaccion_id}

delete_transaction(transaccion_id) ==
    /\ Ready
    /\ transacciones' = DeleteFrom(transacciones, transaccion_id)
    /\ ret' = [NoRet EXCEPT !.op = "delete_transaction", !.id = transaccion_id]
    /\ initCalls' = 0
    /\ UNCHANGED <<schema, ubicacionDefault, categorias, lugares, sqlite_sequence,
                   issued, view>>

\* SELECT *: a row written before the column existed reads the column's DEFAULT.
ReadRow(r, default) ==
    IF "ubicacion" \in DOMAIN r THEN r
    ELSE [id |-> r.id, fecha |-> r.fecha, tipo |-> r.tipo, categoria |-> r.categoria,
          monto |-> r.monto, nota |-> r.nota, ubicacion |-> default]

RECURSIVE Perms(_)
Perms(S) ==
    IF S = {} THEN {<<>>}
    ELSE UNION {{<<x>> \o p : p \in Perms(S \ {x})} : x \in S}

\* ORDER BY fecha DESC: the orders SQLite may return, rows of one fecha in any order.
RECURSIVE OrderByFechaDesc(_)
OrderByFechaDesc(rows) ==
    IF rows = {} THEN {<<>>}
    ELSE LET top  == CHOOSE r \in rows : \A s \in rows : ~TextLess(r.fecha, s.fecha)
             ties == {r \in rows : r.fecha = top.fecha}
         IN  {p \o q : p \in Perms(ties), q \in OrderByFechaDesc(rows \ ties)}

\* The frames get_data() may return on a store of this schema, these rows and
\* this column default; <<>> is the empty frame, also returned when the query
\* or pd.to_datetime raises.
Frames(sch, rows, default) ==
    IF sch["transacciones"] = <<>> \/ \E r \in rows : ~IsIsoText(r.fecha)
    THEN {<<>>}
    ELSE LET read == {ReadRow(r, default) : r \in rows}
             df   == [r \in read |-> [r EXCEPT !.fecha = ToDatetime(@)]]
         IN  {[i \in DOMAIN s |-> df[s[i]]] : s \in OrderByFechaDesc(read)}

get_data == Frames(schema, transacciones, ubicacionDefault)

----------------------------------------------------------------------------
(* The script body: the sidebar filter and the dashboard of tab2. *)

\* df_original[mask]
MaskAnyMonth(df, selected_year, selected_month_key) ==
    LET Keep(row) == row.fecha.year = selected_year
    IN  SelectSeq(df, Keep)
Mask(df, selected_year, selected_month_key) ==
    LET Keep(row) ==
            IF selected_month_key = 13
            THEN row.fecha.year = selected_year
            ELSE row.fecha.year = selected_year /\ row.fecha.month = selected_month_key
    IN  SelectSeq(df, Keep)

OfTipo(df, tipo) == LET Keep(row) == row.tipo = tipo IN SelectSeq(df, Keep)

\* Series.sum(): the float sum of a column, row after row.
RECURSIVE SumMonto(_)
SumMonto(df) ==
    IF df = <<>> THEN 0
    ELSE FAdd(SumMonto(SubSeq(df, 1, Len(df) - 1)), df[Len(df)].monto)

\* The labels of a column in the order they first appear.
RECURSIVE FirstSeen(_, _)
FirstSeen(df, col) ==
    IF df = <<>> THEN <<>>
    ELSE LET before == FirstSeen(SubSeq(df, 1, Len(df) - 1), col)
             label  == df[Len(df)][col]
         IN  IF InSeq(label, before) THEN before ELSE Append(before, label)

\* px.pie(df_g, values='monto', names='categoria'): one slice per categoria,
\* its value the sum of the rows of that categoria.
PieDropRepeats(df_g) ==
    LET labels == FirstSeen(df_g, "categoria")
    IN  [i \in DOMAIN labels |->
            LET First(row) == row.categoria = labels[i]
            IN  [categoria |-> labels[i], monto |-> Head(SelectSeq(df_g, First)).monto]]
Pie(df_g) ==
    LET labels == FirstSeen(df_g, "categoria")
    IN  [i \in DOMAIN labels |->
            LET Same(row) == row.categoria = labels[i]
            IN  [categoria |-> labels[i], monto |-> SumMonto(SelectSeq(df_g, Same))]]

\* groupby('ubicacion')['monto'].sum().reset_index(): one row per ubicacion
\* that is not None, in the order of the keys.
RECURSIVE SortedKeys(_)
SortedKeys(keys) ==
    IF keys = {} THEN <<>>
    ELSE LET first == CHOOSE k \in keys : \A l \in keys \ {k} : TextLess(k, l)
         IN  <<first>> \o SortedKeys(keys \ {first})

GroupByUbicacion(df_g) ==
    LET keys == SortedKeys({df_g[i].ubicacion : i \in DOMAIN df_g} \ {Null})
    IN  [i \in DOMAIN keys |->
            LET Same(row) == row.ubicacion = keys[i]
            IN  [ubicacion |-> keys[i], monto |-> SumMonto(SelectSeq(df_g, Same))]]

\* sort_values('monto', ascending=False): rows of one monto keep their order.
RECURSIVE SortValuesDesc(_)
SortValuesDesc(rows) ==
    IF rows = <<>> THEN <<>>
    ELSE LET i == CHOOSE k \in DOMAIN rows :
                      /\ \A l \in DOMAIN rows : rows[l].monto <= rows[k].monto
                      /\ \A l \in 1..(k - 1) : rows[l].monto < rows[k].monto
         IN  <<rows[i]>> \o
             SortValuesDesc(SubSeq(rows, 1, i - 1) \o SubSeq(rows, i + 1, Len(rows)))

HeadRows(rows, n) == SubSeq(rows, 1, IF Len(rows) < n THEN Len(rows) ELSE n)

TopLocationsUnsorted(df) == HeadRows(GroupByUbicacion(OfTipo(df, "Gasto")), 5)
TopLocations(df) == HeadRows(SortValuesDesc(GroupByUbicacion(OfTipo(df, "Gasto"))), 5)

NoView == [shown |-> FALSE, year |-> 0, month |-> 0, df |-> <<>>,
           ing |-> 0, gas |-> 0, balance |-> 0, pie |-> <<>>, df_loc |-> <<>>]

\* One run of the script body on the frame get_data() returned.
Script(df_original, selected_year, selected_month_key) ==
    LET df  == IF df_original # <<>>
               THEN Mask(df_original, selected_year, selected_month_key)
               ELSE df_original
        ing == SumMonto(OfTipo(df, "Ingreso"))
        gas == SumMonto(OfTipo(df, "Gasto"))
    IN  IF df = <<>>
        THEN [NoView EXCEPT !.year = selected_year, !.month = selected_month_key]
        ELSE [shown |-> TRUE, year |-> selected_year, month |-> selected_month_key,
              df |-> df, ing |-> ing, gas |-> gas, balance |-> FSub(ing, gas),
              pie |-> Pie(OfTipo(df, "Gasto")), df_loc |-> TopLocations(df)]

----------------------------------------------------------------------------
(* The inputs the operations are called with. *)

Date(y, m, d) == [year |-> y, month |-> m, day |-> d]

comida   == <<"c","o","m","i","d","a">>
Comida   == <<"C","o","m","i","d","a">>
mcDonald == <<"m","c","D","o","n","a","l","d">>
terraza  == <<"t","e","r","r","a","z","a">>
casa     == <<"c","a","s","a">>

TipoInputs == {"Gasto", "Ingreso"}
\* The store never looks at the tipo of a transaction it writes or deletes,
\* so the form submits one; the dashboard's rows carry both.
FormTipoInputs == {"Gasto"}
NombreInputs == {comida, Comida, mcDonald}
LugarInputs == {terraza, casa}
FechaInputs == {Date(2024, 1, 15), Date(2024, 2, 1)}
CategoriaInputs == {Ocio, Null}
MontoInputs == {50}
NotaInputs == {<<>>}
UbicacionInputs == {Casa, Null}
IdInputs == 1..MaxId
\* datetime.now().year
NowYears == {2025}
\* keys of months: 1..12, and 13 for "Todos"
MonthKeyInputs == {1, 2, 3, 13}

----------------------------------------------------------------------------
(* The stores the program may find when it starts. *)

NoTables == [t \in Tables |-> <<>>]

\* No finanzas.db yet: sqlite3.connect creates an empty one.
FreshStore ==
    [schema |-> NoTables, transacciones |-> {}, categorias |-> {}, lugares |-> {},
     sqlite_sequence |-> [t \in Tables |-> 0]]

\* A store a version before the ubicacion column and the lugares table wrote.
LegacyColumns == <<"id", "fecha", "tipo", "categoria", "monto", "nota">>

LegacyRow(id, fecha, tipo, categoria, monto) ==
    [id |-> id, fecha |-> IsoFormat(fecha), tipo |-> tipo, categoria |-> categoria,
     monto |-> Round(monto), nota |-> <<>>]

LegacyStore(rows, cats) ==
    [schema |-> [NoTables EXCEPT !["transacciones"] = LegacyColumns,
                                 !["categorias"] = CategoriasColumns],
     transacciones |-> rows, categorias |-> cats, lugares |-> {},
     sqlite_sequence |-> [t \in Tables |->
                             IF t = "transacciones" /\ rows # {} THEN 2
                             ELSE IF t = "categorias" THEN MaxRowId(cats)
                             ELSE 0]]

\* Both legacy rows and no category; the later row alone and one default
\* category; no row, one default category and a category of the user's.
InitialStores ==
    { FreshStore,
      LegacyStore({LegacyRow(1, Date(2023, 12, 30), "Gasto", Ocio, 20),
                   LegacyRow(2, Date(2023, 12, 31), "Ingreso", Salario, 1000)},
                  {}),
      LegacyStore({LegacyRow(2, Date(2023, 12, 31), "Ingreso", Salario, 1000)},
                  {[id |-> 1, tipo |-> "Gasto", nombre |-> Ocio]}),
      LegacyStore({},
                  {[id |-> 1, tipo |-> "Ingreso", nombre |-> Salario],
                   [id |-> 2, tipo |-> "Gasto", nombre |-> Comida]}) }

StartFrom(s) ==
    /\ schema = s.schema
    /\ ubicacionDefault = Null
    /\ transacciones = s.transacciones
    /\ categorias = s.categorias
    /\ lugares = s.lugares
    /\ sqlite_sequence = s.sqlite_sequence
    /\ issued = 1..s.sqlite_sequence["transacciones"]
    /\ initCalls = 0
    /\ ret = NoRet
    /\ view = NoView

Init == \E s \in InitialStores : StartFrom(s)

----------------------------------------------------------------------------
(* The actions. *)

AddTransaction ==
    \E fecha \in FechaInputs, tipo \in FormTipoInputs, categoria \in CategoriaInputs,
       monto \in MontoInputs, nota \in NotaInputs, ubicacion \in UbicacionInputs :
        add_transaction(fecha, tipo, categoria, monto, nota, ubicacion)

DeleteTransaction == \E id \in IdInputs : delete_transaction(id)

AddCategory == \E tipo \in TipoInputs, nombre \in NombreInputs : AddNewCategory(tipo, nombre)

AddLocation == \E nombre \in LugarInputs : AddNewLocation(nombre)

\* The years the sidebar offers: those of the data, and the current one.
YearsOffered(df_original, current_year) ==
    {df_original[i].fecha.year : i \in DOMAIN df_original} \cup {current_year}

Render ==
    /\ Ready
    /\ \E df_original \in get_data :
          IF df_original = <<>>
          THEN view' = NoView
          ELSE \E current_year \in NowYears :
               \E selected_year \in YearsOffered(df_original, current_year),
                  selected_month_key \in MonthKeyInputs :
                   view' = Script(df_original, selected_year, selected_month_key)
    /\ UNCHANGED <<schema, ubicacionDefault, transacciones, categorias, lugares,
                   sqlite_sequence, issued, initCalls, ret>>

Next ==
    \/ InitDb
    \/ AddTransaction
    \/ DeleteTransaction
    \/ AddCategory
    \/ AddLocation
    \/ Render

Spec == Init /\ [][Next]_vars

\* The transaction store alone.
NextStore == InitDb \/ AddTransaction \/ DeleteTransaction
SpecStore == Init /\ [][NextStore]_vars

\* The reference data alone.
NextRef == InitDb \/ AddCategory \/ AddLocation
SpecRef == Init /\ [][NextRef]_vars

----------------------------------------------------------------------------
(* The dashboard on stored tables: init_db on a new store, then the rows of *)
(* any subset of Fixtures added in their order.                             *)

Fixture(fecha, tipo, categoria, monto, ubicacion) ==
    [fecha |-> fecha, tipo |-> tipo, categoria |-> categoria, monto |-> monto,
     nota |-> <<>>, ubicacion |-> ubicacion]

Fixtures ==
    << Fixture(Date(2024, 1, 15), "Gasto", Alimentacion, 50, Casa),
       Fixture(Date(2024, 1, 20), "Ingreso", Salario, 1000, Oficina),
       Fixture(Date(2024, 2, 1), "Gasto", Transporte, 20, Casa),
       Fixture(Date(2024, 1, 16), "Gasto", Ocio, 20, Oficina),
       Fixture(Date(2024, 1, 16), "Gasto", Ocio, 50, Supermercado),
       Fixture(Date(2024, 1, 18), "Gasto", Salud, 1, Restaurante),
       Fixture(Date(2024, 1, 19), "Gasto", Salud, 1, Online),
       Fixture(Date(2024, 1, 21), "Gasto", Vivienda, 2 ^ MantBits, General),
       Fixture(Date(2023, 3, 1), "Gasto", Ocio, 1, Null) >>

\* The rows after add_transaction of the fixtures chosen, in their order.
FixtureRows(chosen) ==
    { LET f == Fixtures[i]
      IN  NewRow(Cardinality({j \in chosen : j <= i}), f.fecha, f.tipo, f.categoria,
                 f.monto, f.nota, f.ubicacion) : i \in chosen }

InitDashboard ==
    \E chosen \in SUBSET DOMAIN Fixtures :
        LET cats == SeedCategorias([rows |-> {}, seq |-> 0])
            lugs == SeedLugares([rows |-> {}, seq |-> 0])
        IN  /\ schema = CreateTablesIfNotExist(NoTables)
            /\ ubicacionDefault = Null
            /\ transacciones = FixtureRows(chosen)
            /\ categorias = cats.rows
            /\ lugares = lugs.rows
            /\ sqlite_sequence = [t \in Tables |->
                                     IF t = "transacciones" THEN Cardinality(chosen)
                                     ELSE IF t = "categorias" THEN cats.seq
                                     ELSE lugs.seq]
            /\ issued = 1..Cardinality(chosen)
            /\ initCalls = 1
            /\ ret = [NoRet EXCEPT !.op = "init_db"]
            /\ view = NoView

SpecDashboard == InitDashboard /\ [][Render]_vars

----------------------------------------------------------------------------
(* Properties of the reference data (SpecRef). *)

CountOf(x, l) == Cardinality({i \in DOMAIN l : l[i] = x})

DiffersOnlyInFirstCase(a, b) ==
    /\ Len(a) = Len(b) /\ Len(a) > 0
    /\ a # b
    /\ Lower(a[1]) = Lower(b[1])
    /\ \A i \in 2..Len(a) : a[i] = b[i]

NoCaseDuplicates(l) ==
    \A i, j \in DOMAIN l :
        i < j => l[i] # l[j] /\ ~DiffersOnlyInFirstCase(l[i], l[j])

AfterAddCategory(tipo, nombre, r) ==
    r.op = "add_new_category" /\ r.tipo = tipo /\ r.text = nombre

\* C1: once init_db has run, whatever categories are added, get_categories(tipo)
\* holds no two names that are equal or differ only in the case of the first
\* letter; add_new_category("Gasto", "Comida") right after
\* add_new_category("Gasto", "comida") returns False and leaves "Comida" once.
C1_NoCaseDuplicates ==
    [][/\ AllTables(schema') => \A tipo \in TipoInputs :
                        \A l \in {SelectNombres(categorias', tipo)} : NoCaseDuplicates(l)
       /\ (AfterAddCategory("Gasto", comida, ret) /\ AfterAddCategory("Gasto", Comida, ret'))
            => /\ ret'.value = FALSE
               /\ \A l \in {SelectNombres(categorias', "Gasto")} : CountOf(Comida, l) = 1]_vars

C1_Witness ==
    /\ AfterAddCategory("Gasto", Comida, ret)
    /\ ret.value = FALSE
    /\ \E r \in categorias :
          r.tipo = "Gasto" /\ r.nombre = Comida /\ r.id > Len(defaults)

SeedPairs(rows) == {<<r.tipo, r.nombre>> : r \in rows}

\* C2: a second init_db right after a first one changes neither the schema nor
\* the rows of the three tables, and no default row is stored twice.
C2_InitIdempotent ==
    [][(initCalls >= 1 /\ ret'.op = "init_db")
         => /\ UNCHANGED <<schema, ubicacionDefault, transacciones, categorias, lugares>>
            /\ Frames(schema', transacciones', ubicacionDefault') = get_data
            /\ \A i \in DOMAIN defaults :
                  Cardinality({r \in categorias' : <<r.tipo, r.nombre>> = defaults[i]}) <= 1
            /\ \A i \in DOMAIN lugares_defecto :
                  Cardinality({r \in lugares' : r.nombre = lugares_defecto[i]}) <= 1]_vars

C2_Witness ==
    /\ initCalls = 2
    /\ ret.op = "init_db"
    /\ transacciones # {}
    /\ SeedPairs(categorias) = Range(defaults)

\* C9: init_db writes the default categories only into an empty categorias
\* table and the default places only into an empty lugares table; a table
\* that holds a row already gains none.
C9_SeedOnlyWhenEmpty ==
    [][ret'.op = "init_db"
         => /\ categorias # {} => categorias' = categorias
            /\ categorias = {} => SeedPairs(categorias') = Range(defaults)
            /\ lugares # {} => lugares' = lugares
            /\ lugares = {} => {r.nombre : r \in lugares'} = Range(lugares_defecto)]_vars

C9_Witness ==
    /\ ret.op = "init_db"
    /\ categorias # {}
    /\ \E i \in DOMAIN defaults : defaults[i] \notin SeedPairs(categorias)
    /\ {r.nombre : r \in lugares} = Range(lugares_defecto)

\* What add_new_category promises when its name is normalized by Norm.
AddCategoryContract(Norm(_)) ==
    ret'.op = "add_new_category" =>
        LET tipo == ret'.tipo
            name == Norm(ret'.text)
        IN  /\ ret'.value = FALSE <=> CategoriaConflict(categorias, tipo, name)
            /\ ret'.value = FALSE => categorias' = categorias
            /\ ret'.value = TRUE => InSeq(name, SelectNombres(categorias', tipo))

FirstUpper(s) == [i \in DOMAIN s |-> IF i = 1 THEN Upper(s[i]) ELSE s[i]]
FirstUpperRestLower(s) == [i \in DOMAIN s |-> IF i = 1 THEN Upper(s[i]) ELSE Lower(s[i])]

\* C5 as stated: the name is normalized by upper-casing its first letter only;
\* the call returns False, changing nothing, exactly when (tipo, that name) is
\* stored, and otherwise returns True with that name listed.
C5_AsClaimed == [][AddCategoryContract(FirstUpper)]_vars

\* C5 amended: the same with the name normalized by upper-casing its first
\* letter and lower-casing every other letter.
C5_Amended == [][AddCategoryContract(FirstUpperRestLower)]_vars

C5_Witness ==
    /\ AfterAddCategory("Gasto", mcDonald, ret)
    /\ ret.value = FALSE
    /\ \E r \in categorias : r.tipo = "Gasto" /\ r.nombre = FirstUpperRestLower(mcDonald)

----------------------------------------------------------------------------
(* Properties of the transaction store (SpecStore). *)

IsLegacyRow(r) == "ubicacion" \notin DOMAIN r

\* The frame row that shows stored row r, its ubicacion being u.
Shows(row, r, u) ==
    /\ row.id = r.id
    /\ IsoFormat(row.fecha) = r.fecha
    /\ row.tipo = r.tipo /\ row.categoria = r.categoria
    /\ row.monto = r.monto /\ row.nota = r.nota
    /\ row.ubicacion = u

\* C3: init_db on a table written without the ubicacion column keeps every row,
\* each read back unchanged with ubicacion 'General'; a row added afterwards
\* is read back with the ubicacion it was given.
C3_Migration ==
    [][/\ ret'.op = "init_db"
            => \A df \in Frames(schema', transacciones', ubicacionDefault') :
                  \A r \in transacciones :
                      IsLegacyRow(r) => \E i \in DOMAIN df : Shows(df[i], r, General)
       /\ (ret'.op = "add_transaction" /\ ret'.value)
            => \A df \in Frames(schema', transacciones', ubicacionDefault') :
                  \E i \in DOMAIN df : df[i].id = ret'.id /\ df[i].ubicacion = ret'.text]_vars

C3_Witness ==
    /\ ret.op = "add_transaction" /\ ret.value /\ ret.text = Null
    /\ ubicacionDefault = General
    /\ \E r \in transacciones : IsLegacyRow(r)
    /\ \A df \in get_data : \E i \in DOMAIN df : df[i].ubicacion = General

FrameRows(frames) == UNION {Range(df) : df \in frames}

\* C4: after delete_transaction(id) get_data returns no row of that id and
\* every other row as before; with no row of that id the call does not fail
\* and the table is unchanged.
C4_Delete ==
    [][ret'.op = "delete_transaction"
         => /\ ret'.value = TRUE
            /\ \A after \in {Frames(schema', transacciones', ubicacionDefault')} :
               \A shown \in {FrameRows(after)} :
                  /\ \A row \in shown : row.id # ret'.id
                  /\ shown = {row \in FrameRows(get_data) : row.id # ret'.id}
                  /\ \A df \in after : Len(df) = Cardinality(shown) /\ Range(df) = shown
            /\ (\A r \in transacciones : r.id # ret'.id) => transacciones' = transacciones]_vars

C4_Witness ==
    /\ ret.op = "delete_transaction"
    /\ ret.id \in issued
    /\ \A r \in transacciones : r.id # ret.id
    /\ \E r \in transacciones : r.id > ret.id

\* C10: add_transaction never assigns an id that an earlier add_transaction
\* assigned, deleted or not; ids of stored rows are distinct.
C10_FreshIds ==
    [][/\ \A r \in transacciones' :
             (\A q \in transacciones : q.id # r.id) => r.id \notin issued
       /\ \A r, q \in transacciones' : r.id = q.id => r = q
       /\ \A r \in transacciones' : r.id \in issued']_vars

C10_Witness ==
    /\ ret.op = "add_transaction" /\ ret.value
    /\ \E id \in issued : id < ret.id /\ \A r \in transacciones : r.id # id
    /\ \E r \in transacciones : r.id = ret.id /\ ~IsLegacyRow(r)

----------------------------------------------------------------------------
(* Properties of the dashboard (SpecDashboard). *)

GastoRows(df) == OfTipo(df, "Gasto")

\* The ubicacion groups of the Gasto rows and what each sums to.
Ubicaciones(df) == {GastoRows(df)[i].ubicacion : i \in DOMAIN GastoRows(df)} \ {Null}
GroupSum(df, u) ==
    LET Same(row) == row.ubicacion = u IN SumMonto(SelectSeq(GastoRows(df), Same))

\* C6: the location breakdown has at most 5 groups, in non-increasing order of
\* their sums, and no group left out sums to more than a group kept.
C6_TopLocations ==
    view.shown =>
        LET kept == {view.df_loc[i].ubicacion : i \in DOMAIN view.df_loc}
        IN  /\ Len(view.df_loc) <= 5
            /\ \A i \in DOMAIN view.df_loc :
                  /\ view.df_loc[i].ubicacion \in Ubicaciones(view.df)
                  /\ view.df_loc[i].monto = GroupSum(view.df, view.df_loc[i].ubicacion)
            /\ \A i, j \in DOMAIN view.df_loc :
                  i < j => /\ view.df_loc[i].monto >= view.df_loc[j].monto
                           /\ view.df_loc[i].ubicacion # view.df_loc[j].ubicacion
            /\ Cardinality(kept) = IF Cardinality(Ubicaciones(view.df)) < 5
                                   THEN Cardinality(Ubicaciones(view.df)) ELSE 5
            /\ \A u \in Ubicaciones(view.df) \ kept :
                  \A k \in kept : GroupSum(view.df, u) <= GroupSum(view.df, k)

C6_Witness ==
    /\ view.shown
    /\ Len(view.df_loc) = 5
    /\ Cardinality(Ubicaciones(view.df)) > 5
    /\ \E i \in DOMAIN view.df_loc : view.df_loc[i].monto > view.df_loc[5].monto

\* The float sum of the slices of the pie, slice after slice.
SumSlices(pie) == SumMonto(pie)

\* The sum of the Gasto amounts in exact arithmetic.
RECURSIVE ExactSum(_)
ExactSum(df) == IF df = <<>> THEN 0 ELSE df[1].monto + ExactSum(Tail(df))

\* C7 as stated: with at least one Gasto row, the per-category expense totals
\* add up to the KPI total expense gas.
C7_AsClaimed ==
    (view.shown /\ GastoRows(view.df) # <<>>) => SumSlices(view.pie) = view.gas

\* C7 amended: they add up to gas whenever every amount and every sum of
\* amounts is exactly representable as a float (the exact total does not
\* exceed 2^MantBits); beyond that the two float sums may differ by rounding.
C7_Amended ==
    (view.shown /\ GastoRows(view.df) # <<>>
        /\ ExactSum(GastoRows(view.df)) <= 2 ^ MantBits)
    => /\ SumSlices(view.pie) = view.gas
       /\ view.gas = ExactSum(GastoRows(view.df))

C7_Witness ==
    /\ view.shown
    /\ Len(view.pie) >= 2
    /\ Len(GastoRows(view.df)) > Len(view.pie)
    /\ ExactSum(GastoRows(view.df)) <= 2 ^ MantBits
    /\ SumSlices(view.pie) = view.gas

YearText(y) ==
    <<Digit(y \div 1000), Digit((y \div 100) % 10), Digit((y \div 10) % 10), Digit(y % 10)>>
MonthText(m) == <<Digit(m \div 10), Digit(m % 10)>>

\* The stored rows whose fecha text is of the year, and of the month unless 13.
InWindow(rows, y, m) ==
    {r \in rows : /\ SubSeq(r.fecha, 1, 4) = YearText(y)
                  /\ m # 13 => SubSeq(r.fecha, 6, 7) = MonthText(m)}

\* C8: the filter keeps exactly the stored transactions of the selected year
\* and, unless "Todos" is selected, the selected month; for the three records
\* of 2024-01-15, 2024-01-20 and 2024-02-01, year 2024 and month 1 give the
\* first two and the KPIs 1000, 50 and 950.
C8_Filter ==
    /\ view.year # 0 =>
          /\ {view.df[i].id : i \in DOMAIN view.df}
                = {r.id : r \in InWindow(transacciones, view.year, view.month)}
          /\ Len(view.df) = Cardinality(InWindow(transacciones, view.year, view.month))
          /\ view.shown <=> view.df # <<>>
    /\ (transacciones = FixtureRows({1, 2, 3}) /\ view.year = 2024 /\ view.month = 1)
          => /\ view.shown
             /\ {view.df[i].id : i \in DOMAIN view.df} = {1, 2}
             /\ view.ing = 1000 /\ view.gas = 50 /\ view.balance = 950

C8_Witness ==
    /\ transacciones = FixtureRows({1, 2, 3})
    /\ view.year = 2024 /\ view.month = 1
    /\ Len(view.df) = 2
    /\ view.balance = 950

====
